---- MODULE Spec2Model ----
(***************************************************************************)
(* Model of my_strategy.py: generate_signals(candles_target,               *)
(* candles_anchor), a pure function over two pandas tables.                *)
(*                                                                         *)
(* A table is a record [columns, rows]; a row is a function from column    *)
(* name to cell.  Timestamps and closes are integers.  A derived float is  *)
(* a record [kind, num, den]: NaN, +inf, -inf or the exact rational        *)
(* num/den (den > 0).  The model computes in exact rationals where pandas  *)
(* computes in IEEE doubles; the special values NaN and +-inf follow IEEE. *)
(***************************************************************************)
EXTENDS Integers, Sequences, FiniteSets, TLC

VARIABLES candles_target, candles_anchor, pc, df, result, error

vars == <<candles_target, candles_anchor, pc, df, result, error>>

(***************************************************************************)
(* Bounds of the checked input families.                                   *)
(***************************************************************************)
MaxTs == 3
MaxLen == 6

(***************************************************************************)
(* Floats.                                                                 *)
(***************************************************************************)
NaN == [kind |-> "nan", num |-> 0, den |-> 1]
PosInf == [kind |-> "pinf", num |-> 0, den |-> 1]
NegInf == [kind |-> "ninf", num |-> 0, den |-> 1]
Fin(n, d) == [kind |-> "fin", num |-> n, den |-> d]

IsNaN(x) == x.kind = "nan"

\* a / b of two integer cells, as numpy divides: x/0 is +-inf, 0/0 is NaN
Div(a, b) ==
    IF b = 0
    THEN (IF a > 0 THEN PosInf ELSE IF a < 0 THEN NegInf ELSE NaN)
    ELSE IF b < 0 THEN Fin(-a, -b) ELSE Fin(a, b)

\* x - 1
SubOne(x) == IF x.kind = "fin" THEN Fin(x.num - x.den, x.den) ELSE x

\* x + y
FAdd(x, y) ==
    IF IsNaN(x) \/ IsNaN(y) THEN NaN
    ELSE IF x.kind = "fin" /\ y.kind = "fin"
         THEN Fin(x.num * y.den + y.num * x.den, x.den * y.den)
    ELSE IF x.kind = "fin" THEN y
    ELSE IF y.kind = "fin" THEN x
    ELSE IF x.kind = y.kind THEN x ELSE NaN

\* x > c and x < c for a threshold c = <<num, den>>, den > 0; false on NaN
FGt(x, c) ==
    CASE x.kind = "nan" -> FALSE
      [] x.kind = "pinf" -> TRUE
      [] x.kind = "ninf" -> FALSE
      [] OTHER -> x.num * c[2] > c[1] * x.den

FLt(x, c) ==
    CASE x.kind = "nan" -> FALSE
      [] x.kind = "pinf" -> FALSE
      [] x.kind = "ninf" -> TRUE
      [] OTHER -> x.num * c[2] < c[1] * x.den

(***************************************************************************)
(* Program constants.                                                      *)
(***************************************************************************)
PumpThreshold == <<2, 100>>         \* 0.02
BuyMomentum == <<15, 1000>>         \* 0.015
SellMomentum == <<-15, 1000>>       \* -0.015
LagShift == 4
MomentumShift == 1

TargetCols == {"timestamp", "close"}
AnchorCols == {"timestamp", "close_BTC", "close_ETH"}

(***************************************************************************)
(* pandas primitives used by generate_signals.                             *)
(***************************************************************************)
\* table[[cols]] raises KeyError when a requested column is absent
KeyError(table, cols) == ~(cols \subseteq table.columns)

\* a join that forgets the key: every right row matches
MatchesAnyKey(right, ts) == right

\* the rows of right whose key equals ts, in right's order
Matches(right, ts) == SelectSeq(right, LAMBDA r : r["timestamp"] = ts)

JoinRow(l, r) ==
    [timestamp |-> l["timestamp"], close |-> l["close"],
     close_BTC |-> r["close_BTC"], close_ETH |-> r["close_ETH"]]

RECURSIVE JoinOne(_, _)
JoinOne(l, ms) ==
    IF ms = <<>> THEN <<>>
    ELSE <<JoinRow(l, Head(ms))>> \o JoinOne(l, Tail(ms))

\* pd.merge(left, right, on='timestamp', how='inner'): the rows whose key is
\* on both sides, in the order of the left keys (sort=False)
RECURSIVE merge(_, _)
merge(left, right) ==
    IF left = <<>> THEN <<>>
    ELSE JoinOne(Head(left), Matches(right, Head(left)["timestamp"]))
         \o merge(Tail(left), right)

\* Series.pct_change(): s[i] / s[i-1] - 1, NaN at the first position
pct_change(s) ==
    [i \in 1..Len(s) |-> IF i = 1 THEN NaN ELSE SubOne(Div(s[i], s[i - 1]))]

\* a shift in the wrong direction: the value k positions later
shift_ahead(s, k) ==
    [i \in 1..Len(s) |-> IF i + k > Len(s) THEN NaN ELSE s[i + k]]

\* Series.shift(k): the value k positions earlier, NaN at the first k
shift(s, k) ==
    [i \in 1..Len(s) |-> IF i <= k THEN NaN ELSE s[i - k]]

Column(rows, c) == [i \in 1..Len(rows) |-> rows[i][c]]

\* >= in place of > and <= in place of <
signal_of_inclusive(btc_return_4h_ago, eth_return_4h_ago, anchor_momentum) ==
    LET btc_pump == ~FLt(btc_return_4h_ago, PumpThreshold) /\ ~IsNaN(btc_return_4h_ago)
        eth_pump == ~FLt(eth_return_4h_ago, PumpThreshold) /\ ~IsNaN(eth_return_4h_ago)
    IN  IF btc_pump \/ eth_pump
           \/ (~FLt(anchor_momentum, BuyMomentum) /\ ~IsNaN(anchor_momentum))
        THEN "BUY"
        ELSE IF ~FGt(anchor_momentum, SellMomentum) /\ ~IsNaN(anchor_momentum)
        THEN "SELL"
        ELSE "HOLD"

\* the SELL branch tested before the BUY branch
signal_of_sell_first(btc_return_4h_ago, eth_return_4h_ago, anchor_momentum) ==
    IF FLt(anchor_momentum, SellMomentum) THEN "SELL"
    ELSE IF FGt(btc_return_4h_ago, PumpThreshold)
            \/ FGt(eth_return_4h_ago, PumpThreshold)
            \/ FGt(anchor_momentum, BuyMomentum)
    THEN "BUY"
    ELSE "HOLD"

\* the body of the for loop: one row's signal
signal_of(btc_return_4h_ago, eth_return_4h_ago, anchor_momentum) ==
    LET btc_pump == FGt(btc_return_4h_ago, PumpThreshold)
        eth_pump == FGt(eth_return_4h_ago, PumpThreshold)
    IN  IF btc_pump \/ eth_pump \/ FGt(anchor_momentum, BuyMomentum)
        THEN "BUY"
        ELSE IF FLt(anchor_momentum, SellMomentum) THEN "SELL"
        ELSE "HOLD"

\* the frame after the feature columns and the signal column are added
frame(joined) ==
    LET btc == pct_change(Column(joined, "close_BTC"))
        eth == pct_change(Column(joined, "close_ETH"))
        btc_return_4h_ago == shift(btc, LagShift)
        eth_return_4h_ago == shift(eth, LagShift)
        ret_target == pct_change(Column(joined, "close"))
        ret_btc == shift(btc, MomentumShift)
        ret_eth == shift(eth, MomentumShift)
    IN  [i \in 1..Len(joined) |->
            LET anchor_signal == FAdd(ret_btc[i], ret_eth[i])
            IN  [timestamp |-> joined[i].timestamp,
                 close |-> joined[i].close,
                 close_BTC |-> joined[i].close_BTC,
                 close_ETH |-> joined[i].close_ETH,
                 btc_return_4h_ago |-> btc_return_4h_ago[i],
                 eth_return_4h_ago |-> eth_return_4h_ago[i],
                 ret_target |-> ret_target[i],
                 ret_btc |-> ret_btc[i],
                 ret_eth |-> ret_eth[i],
                 anchor_signal |-> anchor_signal,
                 signal |-> signal_of(btc_return_4h_ago[i],
                                      eth_return_4h_ago[i], anchor_signal)]]

\* the missing values of the two returned columns: a NaT timestamp, a None
\* signal; the loop appends only the three signal strings
NaT == -1
None == "None"

\* df[['timestamp', 'signal']].dropna().reset_index(drop=True)
dropna(rows) ==
    LET proj == [i \in 1..Len(rows) |->
                    [timestamp |-> rows[i].timestamp, signal |-> rows[i].signal]]
    IN  SelectSeq(proj, LAMBDA r : r.timestamp # NaT /\ r.signal # None)

NoFrame == <<>>
NoResult == [columns |-> <<>>, rows |-> <<>>]
OutTable(rows) == [columns |-> <<"timestamp", "signal">>, rows |-> rows]

raises(target, anchor) == KeyError(target, TargetCols) \/ KeyError(anchor, AnchorCols)

\* an except clause that lets the cause through
reraised(cause) == cause

\* except Exception as e: raise RuntimeError(...)
wrapped(cause) == "RuntimeError"

\* the table generate_signals returns for inputs that carry the columns
signals(target_rows, anchor_rows) == dropna(frame(merge(target_rows, anchor_rows)))

(***************************************************************************)
(* Input families.                                                         *)
(***************************************************************************)
Table(cols, rows) == [columns |-> cols, rows |-> rows]

Range(f) == {f[i] : i \in DOMAIN f}
Injective(f) == \A i, j \in DOMAIN f : f[i] = f[j] => i = j

\* every arrangement of distinct timestamps of 1..MaxTs, in any row order
TsSeqs == {s \in UNION {[1..n -> 1..MaxTs] : n \in 0..MaxTs} : Injective(s)}

\* the closes of the structural family are fixed functions of the hour
StructTarget(ts) == 100 + ts
StructBTC(ts) == 100 + 3 * ts * ts
StructETH(ts) == 200 - ts

TargetColSets == {TargetCols, {"timestamp"}, TargetCols \cup {"volume"}}
AnchorColSets == {AnchorCols, {"timestamp", "close_ETH"}}

TargetCell(c, ts) == IF c = "timestamp" THEN ts ELSE IF c = "close" THEN StructTarget(ts) ELSE 0
AnchorCell(c, ts) == IF c = "timestamp" THEN ts ELSE IF c = "close_BTC" THEN StructBTC(ts) ELSE StructETH(ts)

StructInputs ==
    {[target |-> Table(tc, [i \in DOMAIN tt |-> [c \in tc |-> TargetCell(c, tt[i])]]),
      anchor |-> Table(ac, [i \in DOMAIN at |-> [c \in ac |-> AnchorCell(c, at[i])]])] :
        tt \in TsSeqs, at \in TsSeqs, tc \in TargetColSets, ac \in AnchorColSets}

\* aligned hourly bars 1..n whose (target, BTC, ETH) closes are drawn per bar
Aligned(bars) ==
    [target |-> Table(TargetCols,
                      [i \in DOMAIN bars |-> [timestamp |-> i, close |-> bars[i][1]]]),
     anchor |-> Table(AnchorCols,
                      [i \in DOMAIN bars |-> [timestamp |-> i, close_BTC |-> bars[i][2],
                                              close_ETH |-> bars[i][3]]])]

AlignedInputs(alphabet, len) ==
    {Aligned(bars) : bars \in UNION {[1..n -> alphabet] : n \in 0..len}}

\* the scenario of the specification's testable properties
ScenarioBars ==
    <<<<100, 100, 100>>, <<101, 103, 100>>, <<100, 103, 100>>, <<99, 103, 100>>,
      <<98, 103, 100>>, <<99, 103, 100>>, <<100, 103, 100>>>>

\* zero and negative closes
NonPositiveBars == {<<100, 100, 100>>, <<100, 0, 100>>, <<100, -100, 100>>, <<100, -103, 0>>}

\* closes on the exact thresholds: 200->204 is 0.02, 200->203 is 0.015,
\* 200->197 is -0.015, 200->202 with 200->201 sums to 0.015
ThresholdBars ==
    {<<50, 200, 200>>, <<50, 204, 200>>, <<50, 203, 200>>, <<50, 203, 197>>, <<50, 202, 201>>}

\* pumps and dumps of either anchor, with a target that moves on its own
RuleBars ==
    {<<100, 100, 100>>, <<101, 103, 100>>, <<99, 100, 103>>, <<100, 97, 97>>, <<101, 100, 100>>}

\* a pump of either anchor and a dump of both, for the lookahead check
LookaheadBars ==
    {<<100, 100, 100>>, <<101, 103, 100>>, <<99, 100, 103>>, <<100, 97, 97>>}

InitWith(inputs) ==
    /\ \E in \in inputs :
          /\ candles_target = in.target
          /\ candles_anchor = in.anchor
    /\ pc = "call"
    /\ df = NoFrame
    /\ result = NoResult
    /\ error = "none"

Init == InitWith(StructInputs \cup {Aligned(ScenarioBars)} \cup AlignedInputs(NonPositiveBars, MaxLen))
InitThreshold == InitWith(AlignedInputs(ThresholdBars, MaxLen))
InitRule == InitWith(AlignedInputs(RuleBars, MaxLen))
InitLookahead == InitWith(AlignedInputs(LookaheadBars, MaxLen))

(***************************************************************************)
(* generate_signals: the whole call, from the merge to the return or the   *)
(* wrapped exception.                                                      *)
(***************************************************************************)
generate_signals ==
    /\ pc = "call"
    /\ IF raises(candles_target, candles_anchor)
       THEN /\ pc' = "raised"
            /\ error' = wrapped("KeyError")
            /\ df' = NoFrame
            /\ result' = NoResult
       ELSE LET joined == merge(candles_target.rows, candles_anchor.rows)
                full == frame(joined)
            IN  /\ pc' = "returned"
                /\ error' = "none"
                /\ df' = full
                /\ result' = OutTable(dropna(full))
    /\ UNCHANGED <<candles_target, candles_anchor>>

Next == generate_signals

Spec == Init /\ [][Next]_vars
SpecThreshold == InitThreshold /\ [][Next]_vars
SpecRule == InitRule /\ [][Next]_vars
SpecLookahead == InitLookahead /\ [][Next]_vars

TypeOK ==
    /\ pc \in {"call", "returned", "raised"}
    /\ error \in {"none", "RuntimeError", "KeyError"}
    /\ pc = "raised" <=> error # "none"

(***************************************************************************)
(* Vocabulary of the properties.                                           *)
(***************************************************************************)
Returned == pc = "returned"
HasColumns == ~KeyError(candles_target, TargetCols) /\ ~KeyError(candles_anchor, AnchorCols)
TsOf(rows) == {rows[i]["timestamp"] : i \in DOMAIN rows}
OutTs == TsOf(result.rows)
Emitted(t, sig) == \E j \in DOMAIN result.rows :
                      result.rows[j].timestamp = t /\ result.rows[j].signal = sig
Ascending(rows) ==
    \A i \in DOMAIN rows : \A j \in DOMAIN rows :
        i < j => rows[i]["timestamp"] < rows[j]["timestamp"]

\* joined positions without history for the 4-step lag (0..4, here 1..5)
NoLagHistory(i) == i <= LagShift + 1

FEq(x, c) == x.kind = "fin" /\ x.num * c[2] = c[1] * x.den
Above(x, c) == x.kind = "pinf" \/ (x.kind = "fin" /\ x.num * c[2] > c[1] * x.den)
Below(x, c) == x.kind = "ninf" \/ (x.kind = "fin" /\ x.num * c[2] < c[1] * x.den)

(***************************************************************************)
(* C1: every joined row without lag history (joined positions 0..4) is     *)
(* absent from the output.  The code emits all of them: dropna runs on the *)
(* columns timestamp and signal, which are never missing.                  *)
(***************************************************************************)
C1_NoHistoryRowsDropped ==
    Returned => \A i \in DOMAIN df : NoLagHistory(i) => df[i].timestamp \notin OutTs

(***************************************************************************)
(* C2: whatever the row order of the inputs, the output rows are in        *)
(* strictly ascending timestamp order.  The code never sorts: the merge    *)
(* keeps the row order of the target table.                                *)
(***************************************************************************)
C2_OutputAscending == Returned => Ascending(result.rows)

(***************************************************************************)
(* C3: the thresholds are strict.  A row whose momentum is exactly 0.015   *)
(* with no lagged return above 0.02 is HOLD; a row whose momentum is       *)
(* exactly -0.015 is never SELL, and HOLD when no lagged return is above   *)
(* 0.02; a lagged return of exactly 0.02 with no other trigger is not BUY. *)
(***************************************************************************)
NoPump(r) == ~Above(r.btc_return_4h_ago, PumpThreshold)
             /\ ~Above(r.eth_return_4h_ago, PumpThreshold)

ScenarioCall == /\ candles_target = Aligned(ScenarioBars).target
                /\ candles_anchor = Aligned(ScenarioBars).anchor

C4_Scenario ==
    (Returned /\ ScenarioCall) =>
        /\ Emitted(2 + LagShift, "BUY")
        /\ \A j \in DOMAIN result.rows :
              result.rows[j].timestamp # 2 + LagShift => result.rows[j].signal = "HOLD"

(***************************************************************************)
(* C5: no lookahead.  With ascending timestamps, the signal emitted at     *)
(* timestamp t is the signal the call emits at t on any input that agrees  *)
(* on the rows up to t: the input cut after t, and the inputs whose later  *)
(* closes are all replaced by the closes of another bar.                   *)
(***************************************************************************)
UpTo(rows, t) == SelectSeq(rows, LAMBDA r : r["timestamp"] <= t)

Repriced(rows, t, cells) ==
    [i \in DOMAIN rows |->
        IF rows[i]["timestamp"] <= t THEN rows[i]
        ELSE [c \in DOMAIN rows[i] |->
                 IF c = "timestamp" THEN rows[i][c] ELSE cells[c]]]

BarCells(bar) == [close |-> bar[1], close_BTC |-> bar[2], close_ETH |-> bar[3]]

Variants(t) ==
    {[target |-> UpTo(candles_target.rows, t), anchor |-> UpTo(candles_anchor.rows, t)]}
    \cup {[target |-> Repriced(candles_target.rows, t, BarCells(bar)),
           anchor |-> Repriced(candles_anchor.rows, t, BarCells(bar))] : bar \in LookaheadBars}

SignalsAt(rows, t) == {rows[j].signal : j \in {k \in DOMAIN rows : rows[k].timestamp = t}}

C5_NoLookahead ==
    (Returned /\ Ascending(candles_target.rows) /\ Ascending(candles_anchor.rows)) =>
        \A t \in OutTs : \A v \in Variants(t) :
            SignalsAt(signals(v.target, v.anchor), t) = SignalsAt(result.rows, t)

\* a BUY row whose later closes, once changed, change a later signal
C5_Witness ==
    /\ Returned
    /\ Ascending(candles_target.rows) /\ Ascending(candles_anchor.rows)
    /\ \E t \in OutTs : \E v \in Variants(t) :
          /\ Emitted(t, "BUY")
          /\ \E u \in OutTs : u > t /\ SignalsAt(signals(v.target, v.anchor), u)
                                       # SignalsAt(result.rows, u)

(***************************************************************************)
(* C6: a call whose target table lacks close, or whose anchor table lacks  *)
(* close_BTC, ends in the RuntimeError kind and returns no table.          *)
(***************************************************************************)
C6_MissingColumnFails ==
    (pc # "call" /\ ("close" \notin candles_target.columns
                     \/ "close_BTC" \notin candles_anchor.columns)) =>
        /\ pc = "raised"
        /\ error = "RuntimeError"
        /\ result = NoResult

C6_Witness ==
    /\ pc = "raised"
    /\ "close" \in candles_target.columns
    /\ "close_BTC" \notin candles_anchor.columns
    /\ candles_target.rows # <<>> /\ candles_anchor.rows # <<>>

(***************************************************************************)
(* C7: the output timestamps are exactly the timestamps on both inputs     *)
(* minus those of the rows without lag history.  The code keeps the rows   *)
(* without lag history (see C1), so the output is the whole intersection.  *)
(***************************************************************************)
C7_JoinMinusDropped ==
    (Returned /\ Injective(Column(candles_target.rows, "timestamp"))
              /\ Injective(Column(candles_anchor.rows, "timestamp"))) =>
        OutTs = (TsOf(candles_target.rows) \cap TsOf(candles_anchor.rows))
                \ {df[i].timestamp : i \in {k \in DOMAIN df : NoLagHistory(k)}}

(***************************************************************************)
(* C8: a percent-change feature computed from a zero or negative close is  *)
(* treated as missing: it satisfies none of > 0.02, > 0.015, < -0.015, and *)
(* the call does not raise.  The code divides as usual: 100/0 - 1 is +inf  *)
(* and (-103)/(-100) - 1 is 0.03, and both trigger BUY.                    *)
(***************************************************************************)
NonPositive(i, c) == i \in DOMAIN df /\ df[i][c] <= 0

\* the return of column c ending at joined position i uses closes i and i-1
FromNonPositive(i, c) == NonPositive(i, c) \/ NonPositive(i - 1, c)

C8_NonPositiveIsMissing ==
    /\ (pc # "call" /\ HasColumns) => Returned
    /\ Returned => \A i \in DOMAIN df :
          /\ FromNonPositive(i - LagShift, "close_BTC")
                => ~Above(df[i].btc_return_4h_ago, PumpThreshold)
          /\ FromNonPositive(i - LagShift, "close_ETH")
                => ~Above(df[i].eth_return_4h_ago, PumpThreshold)
          /\ (FromNonPositive(i - MomentumShift, "close_BTC")
                \/ FromNonPositive(i - MomentumShift, "close_ETH"))
                => /\ ~Above(df[i].anchor_signal, BuyMomentum)
                   /\ ~Below(df[i].anchor_signal, SellMomentum)

(***************************************************************************)
(* C9: when both tables carry the required columns and share no timestamp, *)
(* the call returns the empty table with columns timestamp and signal.     *)
(***************************************************************************)
NoOverlap == TsOf(candles_target.rows) \cap TsOf(candles_anchor.rows) = {}

C9_EmptyOverlap ==
    (pc # "call" /\ HasColumns /\ NoOverlap) =>
        /\ Returned
        /\ error = "none"
        /\ result = OutTable(<<>>)

C9_Witness ==
    /\ Returned /\ NoOverlap
    /\ candles_target.rows # <<>> /\ candles_anchor.rows # <<>>
    /\ result = OutTable(<<>>)

(***************************************************************************)
(* C10: at every joined position i >= 5 whose anchor closes are positive,  *)
(* the emitted signal is the reference rule on the anchor closes alone:    *)
(* BUY if L_BTC > 0.02 or L_ETH > 0.02 or M > 0.015, else SELL if          *)
(* M < -0.015, else HOLD, with L_a = close_a[i-4]/close_a[i-5] - 1 and     *)
(* M the sum over both anchors of close_a[i-1]/close_a[i-2] - 1.  The      *)
(* reference is evaluated in integers, each inequality multiplied through  *)
(* by its positive denominators.                                           *)
(***************************************************************************)
RefPump(c4, c5) == 100 * (c4 - c5) > 2 * c5
RefMomentumNum(b1, b2, e1, e2) == 1000 * ((b1 - b2) * e2 + (e1 - e2) * b2)
RefBuyMomentum(b1, b2, e1, e2) == RefMomentumNum(b1, b2, e1, e2) > 15 * b2 * e2
RefSellMomentum(b1, b2, e1, e2) == RefMomentumNum(b1, b2, e1, e2) < (-15) * b2 * e2

RefSignal(i) ==
    LET B(k) == df[i - k].close_BTC
        E(k) == df[i - k].close_ETH
    IN  IF RefPump(B(4), B(5)) \/ RefPump(E(4), E(5))
           \/ RefBuyMomentum(B(1), B(2), E(1), E(2))
        THEN "BUY"
        ELSE IF RefSellMomentum(B(1), B(2), E(1), E(2)) THEN "SELL"
        ELSE "HOLD"

PositiveCloses(i) ==
    \A k \in {1, 2, 4, 5} : df[i - k].close_BTC > 0 /\ df[i - k].close_ETH > 0

C10_ReferenceRule ==
    Returned => \A i \in DOMAIN df :
        (i > LagShift + 1 /\ PositiveCloses(i)) =>
            /\ Len(result.rows) = Len(df)
            /\ result.rows[i] = [timestamp |-> df[i].timestamp, signal |-> RefSignal(i)]

\* a lagged pump together with a momentum below -0.015: BUY takes precedence
C10_Witness ==
    /\ Returned
    /\ \E i \in DOMAIN df :
          /\ i > LagShift + 1 /\ PositiveCloses(i)
          /\ RefPump(df[i - 4].close_BTC, df[i - 5].close_BTC)
          /\ RefSellMomentum(df[i - 1].close_BTC, df[i - 2].close_BTC,
                             df[i - 1].close_ETH, df[i - 2].close_ETH)
          /\ result.rows[i].signal = "BUY"

====
